---- MODULE Spec2Model ----
(***************************************************************************)
(* State-machine model of the relay API service (src/api/service.go):      *)
(* the bid/payload store, the builder block submission handler, the        *)
(* proposer getHeader/getPayload handlers, the head tracker with its       *)
(* eviction and duty refresh, and the validator registration pipeline.     *)
(*                                                                         *)
(* Every handler is cut into steps at the points where it releases a lock  *)
(* or hands work to another goroutine; one action models one such step.    *)
(***************************************************************************)
EXTENDS Integers, Sequences, FiniteSets, Bags, TLC

VARIABLES
    bids,                       \* api.bids   : bidKey   -> GetHeaderResponse
    blocks,                     \* api.blocks : blockKey -> GetPayloadResponse
    debugAllowZeroValueBlocks,  \* api.debugAllowZeroValueBlocks
    getHeaderWaitTime,          \* api.opts.GetHeaderWaitTime
    regValWorkersOpt,           \* api.opts.RegValWorkers
    waiting,                    \* getHeader requests inside time.Sleep
    srvStarted,                 \* api.srvStarted
    starting,                   \* StartServer calls under way, each with its position
    headConsumers,              \* goroutines consuming head events
    serving,                    \* calls of api.srv.ListenAndServe
    submitting,                 \* submitNewBlock requests between the prior-bid check and the insert
    proposerDutiesEpoch,        \* api.proposerDutiesEpoch
    proposerDutiesResponse,     \* api.proposerDutiesResponse
    dutyTasks,                  \* goroutines running updateProposerDuties
    regValEntriesC,             \* api.regValEntriesC, the registration channel
    registering,                \* registerValidator requests inside their loop
    regValWorkersStarted,       \* api.regValWorkersStarted
    numWorkers,                 \* worker goroutines running
    saving,                     \* goroutines about to call SetValidatorRegistration
    knownValidators,            \* datastore: the known-validator set
    registrations,              \* datastore: pubkey -> stored registration
    refreshCount,               \* history: epoch -> refreshes published for it
    last                        \* the step taken last, with its input and its response

vars == <<bids, blocks, debugAllowZeroValueBlocks, getHeaderWaitTime, regValWorkersOpt, waiting,
          srvStarted, starting, headConsumers, serving, submitting,
          proposerDutiesEpoch, proposerDutiesResponse, dutyTasks,
          regValEntriesC, registering, regValWorkersStarted, numWorkers, saving,
          knownValidators, registrations, refreshCount, last>>

storeVars == <<bids, blocks>>
optVars   == <<debugAllowZeroValueBlocks, getHeaderWaitTime, regValWorkersOpt>>
srvVars   == <<srvStarted, starting, headConsumers, serving>>
dutyVars  == <<proposerDutiesEpoch, proposerDutiesResponse, refreshCount>>
regVars   == <<regValEntriesC, registering, regValWorkersStarted, numWorkers, saving,
               knownValidators, registrations>>

-----------------------------------------------------------------------------
(* Bounds of the model *)

MaxValue      == 2    \* bid values are 0..MaxValue
MaxHeadSlot   == 30   \* head slots fed to the bid store are 0..MaxHeadSlot
MaxInFlight   == 2    \* concurrent submitNewBlock requests past their check
MaxDutyTasks  == 2    \* concurrent updateProposerDuties goroutines
MaxEpoch      == 2    \* head slots fed to the duty refresh lie in epochs 0..MaxEpoch
MaxTimestamp  == 2    \* registration timestamps are 1..MaxTimestamp, and one in the far future
MaxBatch      == 2    \* entries of one registerValidator request
MaxRegistering == 1   \* concurrent registerValidator requests
MaxSaving     == 2    \* concurrent SetValidatorRegistration goroutines
QueueCapacity == 2    \* capacity of regValEntriesC (5000 in the code), scaled down
RegValWorkers == 1    \* opts.RegValWorkers
NumCPU        == 2    \* runtime.NumCPU()
Now           == 2    \* time.Now().Unix() of a registerValidator request
MaxWaiting    == 1    \* concurrent getHeader requests inside their sleep

(* Program constants *)

SlotsPerEpoch == 32          \* common.SlotsPerEpoch
EvictionModulus == 10        \* headSlot%10
EvictionDistance == 10       \* headSlot-10
HashHexLen   == 66           \* len(parentHashHex) != 66
PubkeyHexLen == 98           \* len(pubkey) != 98
PubkeyLength == 48           \* len(registration.Message.Pubkey) != 48
SignatureLength == 96        \* len(registration.Signature) != 96, len(payload.Signature) != 96
FutureLimit  == 10           \* td > 10
\* The width of uint64, scaled to what TLC's integers hold: slots are far
\* below it, so h - 10 wraps around exactly when h < 10, as in the code.
Uint64Modulus == 1073741824

-----------------------------------------------------------------------------
(* Hex text and byte arrays *)

\* A text is kept as its runs of one character: <<Run("a", 64)>> is "aaa...a",
\* sixty-four characters long; a byte array is kept as the runs of its nibbles.
Run(c, n) == [c |-> c, n |-> n]

\* len(s)
RECURSIVE TextLen(_)
TextLen(t) == IF t = <<>> THEN 0 ELSE Head(t).n + TextLen(Tail(t))

\* neighbouring runs of the same character are one run
RECURSIVE Merge(_)
Merge(t) ==
    IF Len(t) < 2 THEN t
    ELSE IF t[1].c = t[2].c
         THEN Merge(<<Run(t[1].c, t[1].n + t[2].n)>> \o SubSeq(t, 3, Len(t)))
         ELSE <<t[1]>> \o Merge(Tail(t))

\* hexutil: the lowercase digit of a nibble
HexDigit(n) == <<"0","1","2","3","4","5","6","7","8","9","a","b","c","d","e","f">>[n + 1]

\* types.Hash.String / types.PublicKey.String: "0x" and two lowercase digits per byte
HexString(nibbles) ==
    Merge(<<Run("0", 1), Run("x", 1)>>
          \o [i \in 1..Len(nibbles) |-> Run(HexDigit(nibbles[i].c), nibbles[i].n)])

ToLowerChar(c) ==
    CASE c = "A" -> "a" [] c = "B" -> "b" [] c = "C" -> "c"
      [] c = "D" -> "d" [] c = "E" -> "e" [] c = "F" -> "f"
      [] c = "X" -> "x" [] OTHER -> c

\* variant: the text is used in the case it came in
KeepCase(s) == s

\* strings.ToLower
ToLower(s) == Merge([i \in 1..Len(s) |-> Run(ToLowerChar(s[i].c), s[i].n)])

\* the value of a hex digit, in either case
HexValue(c) ==
    CASE c = "0" -> 0 [] c = "1" -> 1 [] c = "2" -> 2 [] c = "3" -> 3 [] c = "4" -> 4
      [] c = "5" -> 5 [] c = "6" -> 6 [] c = "7" -> 7 [] c = "8" -> 8 [] c = "9" -> 9
      [] c \in {"a", "A"} -> 10 [] c \in {"b", "B"} -> 11 [] c \in {"c", "C"} -> 12
      [] c \in {"d", "D"} -> 13 [] c \in {"e", "E"} -> 14 [] c \in {"f", "F"} -> 15

\* the text without its first n characters
RECURSIVE Drop(_, _)
Drop(t, n) ==
    IF n = 0 \/ t = <<>> THEN t
    ELSE IF Head(t).n <= n THEN Drop(Tail(t), n - Head(t).n)
    ELSE <<Run(Head(t).c, Head(t).n - n)>> \o Tail(t)

\* UnmarshalJSON of a hash or a pubkey: the bytes behind "0x" and hex digits of either case
FromHex(t) ==
    LET digits == Drop(t, 2)
    IN Merge([i \in 1..Len(digits) |-> Run(HexValue(digits[i].c), digits[i].n)])

\* the uppercase digit of a nibble, for request texts
UpperDigit(n) == <<"0","1","2","3","4","5","6","7","8","9","A","B","C","D","E","F">>[n + 1]

\* the two spellings of a byte array a request may carry
HexForms(nibbles) ==
    {HexString(nibbles),
     Merge(<<Run("0", 1), Run("x", 1)>>
           \o [i \in 1..Len(nibbles) |-> Run(UpperDigit(nibbles[i].c), nibbles[i].n)])}

\* uint64 subtraction
SubUint64(a, b) == (a - b) % Uint64Modulus

-----------------------------------------------------------------------------
(* Keys of the two maps *)

BidKeyOf(slot, parentHashHex, pubkeyHex) ==
    [slot |-> slot, parentHash |-> ToLower(parentHashHex), proposerPubkey |-> ToLower(pubkeyHex)]

BlockKeyOf(slot, blockHashHex) ==
    [slot |-> slot, blockHash |-> ToLower(blockHashHex)]

\* the bidKey of a BuilderSubmitBlockRequest
SubmitBidKey(req) ==
    BidKeyOf(req.slot, HexString(req.parentHash), HexString(req.proposerPubkey))

\* the blockKey of a BuilderSubmitBlockRequest
SubmitBlockKey(req) == BlockKeyOf(req.slot, HexString(req.blockHash))

-----------------------------------------------------------------------------
(* Inputs of the bid store *)

\* n bytes, each with both nibbles x
Bytes(n, x) == <<Run(x, 2 * n)>>

\* the builders post their hex in upper, mixed and lower case
ParentHash     == FromHex(<<Run("0", 1), Run("x", 1), Run("A", 64)>>)
ProposerPubkey == FromHex(<<Run("0", 1), Run("x", 1), Run("b", 48), Run("B", 48)>>)
BlockHashes    == {FromHex(<<Run("0", 1), Run("x", 1), Run("C", 64)>>),
                   FromHex(<<Run("0", 1), Run("x", 1), Run("d", 64)>>)}
SubmitSlots    == {5, 25}
Values         == 0..MaxValue
HeadSlots      == {h \in 0..MaxHeadSlot : h % 5 = 0}

\* req.ExecutionPayload: a nil payload, or one with its own block hash
NilPayload == [present |-> FALSE, blockHash |-> <<>>]
PayloadOf(hash) == [present |-> TRUE, blockHash |-> hash]
ExecutionPayloads == {NilPayload} \cup {PayloadOf(h) : h \in BlockHashes}

\* types.BuilderSubmitBlockRequest, as decoded from the request body
SubmitRequests(slots, hashes, payloads) ==
    [slot : slots, parentHash : {ParentHash}, proposerPubkey : {ProposerPubkey},
     blockHash : hashes, value : Values, executionPayload : payloads]

-----------------------------------------------------------------------------
(* handleSubmitNewBlock *)

\* mutant: the zero-value check left out
IsZeroValueNever(value) == FALSE

\* payload.Message.Value.Cmp(&ZeroU256) == 0
IsZeroValue(value) == value = 0

\* mutant: Cmp(...) < 0, an equal bid passes
StrictlyLowerThan(value, prevValue) == value < prevValue

\* payload.Message.Value.Cmp(&prevBid.Data.Message.Value) < 1
NotHigherThan(value, prevValue) == value <= prevValue

\* The builder bid made from a request: the header is the header of the
\* execution payload, the value is the message's value; it fails on a nil
\* payload. submittedBlockHash is a history field: the message block hash of
\* the request the bid was made from.
BuilderSubmitBlockRequestToSignedBuilderBid(req) ==
    IF req.executionPayload.present
    THEN [err |-> FALSE,
          bid |-> [value |-> req.value,
                   headerBlockHash |-> HexString(req.executionPayload.blockHash),
                   submittedBlockHash |-> HexString(req.blockHash)]]
    ELSE [err |-> TRUE, bid |-> <<>>]

\* mutant: an existing entry is kept
PutBidIfAbsent(m, key, bid) ==
    [k \in DOMAIN m \cup {key} |-> IF k \in DOMAIN m THEN m[k] ELSE bid]

\* api.bids[bidKey] = &getHeaderResponse
PutBid(m, key, bid) == [k \in DOMAIN m \cup {key} |-> IF k = key THEN bid ELSE m[k]]

\* mutant: the payloads of the other block hashes of the slot are dropped
PutBlockOnly(m, key, payload) ==
    [k \in {x \in DOMAIN m : x.slot # key.slot} \cup {key} |-> IF k = key THEN payload ELSE m[k]]

\* api.blocks[blockKey{...}] = &getPayloadResponse
PutBlock(m, key, payload) == [k \in DOMAIN m \cup {key} |-> IF k = key THEN payload ELSE m[k]]

\* a body that does not decode
SubmitNewBlockMalformed ==
    /\ last' = [op |-> "submitNewBlock", outcome |-> "malformed", code |-> 400]
    /\ UNCHANGED <<storeVars, optVars, waiting, srvVars, submitting, dutyVars, dutyTasks, regVars>>

\* from the decoded request to the end of the prior-bid check (RLock section)
SubmitNewBlockCheck(req) ==
    LET key == SubmitBidKey(req) IN
    /\ IF ~debugAllowZeroValueBlocks /\ IsZeroValue(req.value)
       THEN /\ last' = [op |-> "submitNewBlock", outcome |-> "zero", code |-> 200, req |-> req]
            /\ UNCHANGED submitting
       ELSE IF key \in DOMAIN bids /\ NotHigherThan(req.value, bids[key].value)
       THEN /\ last' = [op |-> "submitNewBlock", outcome |-> "notHigher", code |-> 200, req |-> req]
            /\ UNCHANGED submitting
       ELSE /\ BagCardinality(submitting) < MaxInFlight
            /\ submitting' = submitting (+) SetToBag({req})
            /\ last' = [op |-> "submitNewBlock", outcome |-> "checked", code |-> 0, req |-> req]
    /\ UNCHANGED <<storeVars, optVars, waiting, srvVars, dutyVars, dutyTasks, regVars>>

\* from the signing to the response (Lock section)
SubmitNewBlockStore(req) ==
    LET signed == BuilderSubmitBlockRequestToSignedBuilderBid(req)
        key == SubmitBidKey(req)
    IN
    /\ BagIn(req, submitting)
    /\ submitting' = submitting (-) SetToBag({req})
    /\ IF signed.err
       THEN /\ last' = [op |-> "submitNewBlock", outcome |-> "signError", code |-> 400, req |-> req]
            /\ UNCHANGED storeVars
       ELSE /\ bids' = PutBid(bids, key, signed.bid)
            /\ blocks' = PutBlock(blocks, SubmitBlockKey(req), req.executionPayload)
            /\ last' = [op |-> "submitNewBlock", outcome |-> "stored", code |-> 200, req |-> req,
                        replaced |-> IF key \in DOMAIN bids THEN <<bids[key]>> ELSE <<>>]
    /\ UNCHANGED <<optVars, waiting, srvVars, dutyVars, dutyTasks, regVars>>

-----------------------------------------------------------------------------
(* handleGetHeader and handleGetPayload *)

\* the answer of getHeader made from the bid map m
HeaderAnswer(m, key) ==
    IF key \in DOMAIN m
    THEN [code |-> 200, bid |-> m[key]]
    ELSE [code |-> 204, bid |-> <<>>]

\* the answer of getPayload made from the payload map m
PayloadAnswer(m, key) ==
    IF key \in DOMAIN m
    THEN [code |-> 200, payload |-> m[key]]
    ELSE [code |-> 500, payload |-> NilPayload]

\* the read of api.bids under RLock and the answer made from it
GetHeaderResponse(key) == HeaderAnswer(bids, key)

\* the read of api.blocks under RLock and the answer made from it
GetPayloadResponse(key) == PayloadAnswer(blocks, key)

\* the path variables of a getHeader request (slotOk: ParseUint succeeds): the
\* lane of the submissions in lower, mixed and upper case, and three bad requests
GetHeaderRequests(slots) ==
    [slot : slots, slotOk : {TRUE},
     parentHash : {HexString(ParentHash),
                   <<Run("0", 1), Run("x", 1), Run("a", 32), Run("A", 32)>>},
     pubkey : {HexString(ProposerPubkey), <<Run("0", 1), Run("x", 1), Run("B", 96)>>}]
    \cup {[slot |-> 5, slotOk |-> FALSE,
           parentHash |-> HexString(ParentHash), pubkey |-> HexString(ProposerPubkey)],
          [slot |-> 5, slotOk |-> TRUE,
           parentHash |-> <<Run("0", 1), Run("x", 1), Run("a", 63)>>,
           pubkey |-> HexString(ProposerPubkey)],
          [slot |-> 5, slotOk |-> TRUE,
           parentHash |-> HexString(ParentHash),
           pubkey |-> <<Run("0", 1), Run("x", 1), Run("b", 95)>>]}

\* the bidKey a well-formed getHeader request looks up
GetHeaderKey(req) == BidKeyOf(req.slot, req.parentHash, req.pubkey)

\* variant: the bid map is read before the sleep
AnswerBeforeSleep(early, late) == early

\* the read of api.bids comes after time.Sleep: early is what the map held
\* when the request arrived, late what it holds after the sleep
AnswerAfterSleep(early, late) == late

\* the checks of the path variables, then the sleep if a wait time is set,
\* else the read and the response
HandleGetHeader(req) ==
    /\ IF ~req.slotOk \/ TextLen(req.pubkey) # PubkeyHexLen \/ TextLen(req.parentHash) # HashHexLen
       THEN /\ last' = [op |-> "getHeader", phase |-> "rejected", req |-> req,
                        resp |-> [code |-> 400, bid |-> <<>>]]
            /\ UNCHANGED waiting
       ELSE IF getHeaderWaitTime > 0
       THEN /\ BagCardinality(waiting) < MaxWaiting
            /\ waiting' = waiting (+) SetToBag({[req |-> req,
                                                 early |-> GetHeaderResponse(GetHeaderKey(req))]})
            /\ last' = [op |-> "getHeader", phase |-> "sleeping", req |-> req,
                        resp |-> [code |-> 0, bid |-> <<>>]]
       ELSE /\ last' = [op |-> "getHeader", phase |-> "answered", req |-> req,
                        early |-> GetHeaderResponse(GetHeaderKey(req)),
                        resp |-> GetHeaderResponse(GetHeaderKey(req))]
            /\ UNCHANGED waiting
    /\ UNCHANGED <<storeVars, optVars, srvVars, submitting, dutyVars, dutyTasks, regVars>>

\* the sleep is over: the read of api.bids and the response
HandleGetHeaderWake(w) ==
    /\ BagIn(w, waiting)
    /\ waiting' = waiting (-) SetToBag({w})
    /\ last' = [op |-> "getHeader", phase |-> "answered", req |-> w.req, early |-> w.early,
                resp |-> AnswerAfterSleep(w.early, GetHeaderResponse(GetHeaderKey(w.req)))]
    /\ UNCHANGED <<storeVars, optVars, srvVars, submitting, dutyVars, dutyTasks, regVars>>

\* a decoded SignedBlindedBeaconBlock: slot, the hex text of the block hash in
\* the body in either case, signature length
GetPayloadRequests(slots, hashes) ==
    [slot : slots, blockHashHex : UNION {HexForms(h) : h \in hashes},
     signatureLen : {SignatureLength}]

\* the blockKey a getPayload request looks up
GetPayloadKey(req) == BlockKeyOf(req.slot, HexString(FromHex(req.blockHashHex)))

HandleGetPayload(req) ==
    /\ last' = [op |-> "getPayload", req |-> req,
                resp |-> IF req.signatureLen # SignatureLength
                         THEN [code |-> 400, payload |-> NilPayload]
                         ELSE GetPayloadResponse(GetPayloadKey(req))]
    /\ UNCHANGED <<storeVars, optVars, waiting, srvVars, submitting, dutyVars, dutyTasks, regVars>>

\* a getPayload body that does not decode
HandleGetPayloadMalformed ==
    /\ last' = [op |-> "getPayload", outcome |-> "malformed", code |-> 400]
    /\ UNCHANGED <<storeVars, optVars, waiting, srvVars, submitting, dutyVars, dutyTasks, regVars>>

-----------------------------------------------------------------------------
(* processNewSlot: eviction and the spawn of the duty refresh *)

\* mutant: key.slot+10 < headSlot-10
ExpiredLate(slot, headSlot) == slot + EvictionDistance < SubUint64(headSlot, EvictionDistance)

\* key.slot < headSlot-10, in uint64
Expired(slot, headSlot) == slot < SubUint64(headSlot, EvictionDistance)

\* the loop over api.bids
EvictBids(m, headSlot) == [k \in {x \in DOMAIN m : ~Expired(x.slot, headSlot)} |-> m[k]]

\* mutant: the loop over api.blocks drops every entry
EvictBlocksAll(m, headSlot) == [k \in {} |-> 0]

\* the loop over api.blocks
EvictBlocks(m, headSlot) == [k \in {x \in DOMAIN m : ~Expired(x.slot, headSlot)} |-> m[k]]

\* headSlot / uint64(common.SlotsPerEpoch)
EpochOf(headSlot) == headSlot \div SlotsPerEpoch

\* go func() { api.updateProposerDuties(currentEpoch) }()
NewDutyTask(epoch) ==
    [epoch |-> epoch, pc |-> "guard", duties |-> <<>>, pending |-> {}, collected |-> <<>>]

\* what processNewSlot does to the two maps and to the goroutines
ProcessNewSlotEffect(headSlot) ==
    /\ IF headSlot % EvictionModulus = 0
       THEN /\ bids' = EvictBids(bids, headSlot)
            /\ blocks' = EvictBlocks(blocks, headSlot)
       ELSE UNCHANGED storeVars
    /\ dutyTasks' = dutyTasks (+) SetToBag({NewDutyTask(EpochOf(headSlot))})

ProcessNewSlot(headSlot) ==
    /\ BagCardinality(dutyTasks) < MaxDutyTasks
    /\ ProcessNewSlotEffect(headSlot)
    /\ last' = [op |-> "processNewSlot", headSlot |-> headSlot,
                numBidsRemoved |-> (Cardinality(DOMAIN bids) - Cardinality(DOMAIN bids'))
                                   + (Cardinality(DOMAIN blocks) - Cardinality(DOMAIN blocks')),
                numBidsRemaining |-> Cardinality(DOMAIN bids')]
    /\ UNCHANGED <<optVars, waiting, srvVars, submitting, dutyVars, regVars>>

-----------------------------------------------------------------------------
(* updateProposerDuties, one goroutine per processNewSlot *)

Pubkeys == {"pkA", "pkB"}

\* the datastore's entry of a pubkey without a registration
NoRegistration == [present |-> FALSE, timestamp |-> 0, signature |-> "none"]

\* beaconClient.GetProposerDuties(epoch): r.Data on success
DutiesOfEpoch(epoch) ==
    <<[slot |-> epoch * SlotsPerEpoch, pubkey |-> "pkA"],
      [slot |-> epoch * SlotsPerEpoch + 1, pubkey |-> "pkB"]>>

RemoveTask(t) == dutyTasks (-) SetToBag({t})

ReplaceTask(t, u) == (dutyTasks (-) SetToBag({t})) (+) SetToBag({u})

\* epoch <= api.proposerDutiesEpoch
AlreadyChecked(epoch) == epoch <= proposerDutiesEpoch

\* variant: the epoch is marked as checked before the refresh has succeeded
MarkOnAbortEarly(epoch) == epoch

\* return err before api.proposerDutiesEpoch = epoch: the mark stays as it is
MarkOnAbort(epoch) == proposerDutiesEpoch

\* the guard returns: nothing to do for this epoch
UpdateDutiesSkip(t) ==
    /\ BagIn(t, dutyTasks) /\ t.pc = "guard"
    /\ AlreadyChecked(t.epoch)
    /\ dutyTasks' = RemoveTask(t)
    /\ last' = [op |-> "updateProposerDuties", outcome |-> "skipped", epoch |-> t.epoch]
    /\ UNCHANGED <<storeVars, optVars, waiting, srvVars, submitting, dutyVars, regVars>>

\* the guard passes and GetProposerDuties answers; the scatter starts one lookup per duty
UpdateDutiesFetch(t, fails) ==
    /\ BagIn(t, dutyTasks) /\ t.pc = "guard"
    /\ ~AlreadyChecked(t.epoch)
    /\ IF fails
       THEN /\ dutyTasks' = RemoveTask(t)
            /\ last' = [op |-> "updateProposerDuties", outcome |-> "fetchError", epoch |-> t.epoch]
       ELSE /\ dutyTasks' = ReplaceTask(t, [t EXCEPT !.pc = "gather",
                                                     !.duties = DutiesOfEpoch(t.epoch),
                                                     !.pending = 1..Len(DutiesOfEpoch(t.epoch))])
            /\ last' = [op |-> "updateProposerDuties", outcome |-> "fetched", epoch |-> t.epoch]
    /\ proposerDutiesEpoch' = IF fails THEN MarkOnAbort(t.epoch) ELSE proposerDutiesEpoch
    /\ UNCHANGED <<storeVars, optVars, waiting, srvVars, submitting,
                   proposerDutiesResponse, refreshCount, regVars>>

\* one result arrives on the channel: the lookup of duty i, in completion order
UpdateDutiesGather(t, i, fails) ==
    LET duty == t.duties[i]
        reg == registrations[duty.pubkey]
    IN
    /\ BagIn(t, dutyTasks) /\ t.pc = "gather"
    /\ i \in t.pending
    /\ IF fails
       THEN /\ dutyTasks' = RemoveTask(t)
            /\ last' = [op |-> "updateProposerDuties", outcome |-> "lookupError", epoch |-> t.epoch]
       ELSE /\ dutyTasks' = ReplaceTask(t, [t EXCEPT !.pending = t.pending \ {i},
                                                     !.collected = IF reg.present
                                                                   THEN Append(t.collected, [slot |-> duty.slot, entry |-> reg])
                                                                   ELSE t.collected])
            /\ last' = [op |-> "updateProposerDuties", outcome |-> "gathered", epoch |-> t.epoch]
    /\ proposerDutiesEpoch' = IF fails THEN MarkOnAbort(t.epoch) ELSE proposerDutiesEpoch
    /\ UNCHANGED <<storeVars, optVars, waiting, srvVars, submitting,
                   proposerDutiesResponse, refreshCount, regVars>>

\* every result is in: publish under proposerDutiesLock
UpdateDutiesPublish(t) ==
    /\ BagIn(t, dutyTasks) /\ t.pc = "gather"
    /\ t.pending = {}
    /\ proposerDutiesEpoch' = t.epoch
    /\ proposerDutiesResponse' = t.collected
    /\ refreshCount' = [refreshCount EXCEPT ![t.epoch] = @ + 1]
    /\ dutyTasks' = RemoveTask(t)
    /\ last' = [op |-> "updateProposerDuties", outcome |-> "published", epoch |-> t.epoch]
    /\ UNCHANGED <<storeVars, optVars, waiting, srvVars, submitting, regVars>>

\* handleBuilderGetValidators
HandleBuilderGetValidators ==
    /\ last' = [op |-> "builderGetValidators", code |-> 200, duties |-> proposerDutiesResponse]
    /\ UNCHANGED <<storeVars, optVars, waiting, srvVars, submitting, dutyVars, dutyTasks, regVars>>

-----------------------------------------------------------------------------
(* The registration pipeline: handleRegisterValidator, the workers, the datastore *)

\* int64(x) of a uint64
ToInt64(u) == IF u >= Uint64Modulus \div 2 THEN u - Uint64Modulus ELSE u

\* int64 subtraction, wrapping
SubInt64(a, b) ==
    LET d == a - b IN
    IF d >= Uint64Modulus \div 2 THEN d - Uint64Modulus
    ELSE IF d < 0 - (Uint64Modulus \div 2) THEN d + Uint64Modulus
    ELSE d

\* td := int64(registration.Message.Timestamp) - startTimestamp; td > 10
TooFarInFuture(timestamp, startTimestamp) ==
    SubInt64(ToInt64(timestamp), startTimestamp) > FutureLimit

\* the timestamp check of one entry on its own: "" when the entry passes
TimestampCheck(timestamp, startTimestamp) ==
    IF TooFarInFuture(timestamp, startTimestamp) THEN "timestamp too far in the future" ELSE ""

\* prevTimestamp >= registration.Message.Timestamp
IsLatest(prevTimestamp, timestamp) == prevTimestamp >= timestamp

Timestamps == (1..MaxTimestamp) \cup {Now + FutureLimit + 1}

Signatures == {"valid", "invalid", "malformed"}

\* an entry whose Message is nil
NilMessageRegistration ==
    [hasMessage |-> FALSE, pubkey |-> "pkA", pubkeyLen |-> PubkeyLength,
     signatureLen |-> SignatureLength, timestamp |-> 0, signature |-> "invalid"]

\* types.SignedValidatorRegistration: Pubkey and Signature are fixed-size arrays
SignedValidatorRegistrations ==
    {NilMessageRegistration} \cup
    [hasMessage : {TRUE}, pubkey : Pubkeys, pubkeyLen : {PubkeyLength},
     signatureLen : {SignatureLength}, timestamp : Timestamps, signature : Signatures]

\* datastore.IsKnownValidator
IsKnownValidator(pubkey) == pubkey \in knownValidators

\* datastore.GetValidatorRegistrationTimestamp: 0 without a registration or on an error
GetValidatorRegistrationTimestamp(pubkey, fails) ==
    IF fails THEN 0 ELSE registrations[pubkey].timestamp

\* types.VerifySignature: an error for a signature that is no group element
VerifySignature(reg) ==
    [ok |-> reg.signature = "valid", err |-> reg.signature = "malformed"]

\* mutant: only err is looked at
VerifiedWithoutOk(v) == ~v.err

\* the negation of err != nil || !ok
Verified(v) == ~v.err /\ v.ok

\* an entry as posted: the hex strings of its pubkey and signature have any length
PostedEntry(pubkeyLen, signatureLen, timestamp) ==
    [hasMessage |-> TRUE, pubkey |-> "pkA", pubkeyLen |-> pubkeyLen,
     signatureLen |-> signatureLen, timestamp |-> timestamp, signature |-> "valid"]

\* request bodies that json.Decode refuses: no JSON at all, and batches with an
\* entry whose pubkey or signature has not the length of its fixed-size type
UndecodableBodies ==
    {[json |-> FALSE, entries |-> <<>>],
     [json |-> TRUE, entries |-> <<PostedEntry(40, SignatureLength, 1),
                                   PostedEntry(PubkeyLength, SignatureLength, MaxTimestamp)>>],
     [json |-> TRUE, entries |-> <<PostedEntry(PubkeyLength, 95, 1)>>]}

\* json.NewDecoder(req.Body).Decode(&payload) succeeds: Pubkey and Signature
\* are fixed-size byte arrays, which take a hex string of their length only
Decodes(body) ==
    /\ body.json
    /\ \A i \in 1..Len(body.entries) :
          /\ body.entries[i].pubkeyLen = PubkeyLength
          /\ body.entries[i].signatureLen = SignatureLength

\* what the batch asks for, entry by entry: the check an entry fails, "" for none
FailedCheck(reg) ==
    IF ~reg.hasMessage THEN ""
    ELSE IF reg.pubkeyLen # PubkeyLength THEN "invalid pubkey length"
    ELSE IF reg.signatureLen # SignatureLength THEN "invalid signature length"
    ELSE IF reg.timestamp - Now > FutureLimit THEN "timestamp too far in the future"
    ELSE IF reg.pubkey \notin knownValidators THEN "not a known validator"
    ELSE ""

\* a body that does not decode
HandleRegisterValidatorMalformed(body) ==
    /\ ~Decodes(body)
    /\ last' = [op |-> "registerValidator", outcome |-> "malformed", code |-> 400,
                message |-> "decode error", body |-> body]
    /\ UNCHANGED <<storeVars, optVars, waiting, srvVars, submitting, dutyVars, dutyTasks, regVars>>

\* the body decodes to n entries
HandleRegisterValidatorStart(n) ==
    /\ BagCardinality(registering) < MaxRegistering
    /\ registering' = registering (+) SetToBag({[remaining |-> n, errorResp |-> "", expected |-> ""]})
    /\ last' = [op |-> "registerValidator", outcome |-> "started", code |-> 0]
    /\ UNCHANGED <<storeVars, optVars, waiting, srvVars, submitting, dutyVars, dutyTasks,
                   regValEntriesC, regValWorkersStarted, numWorkers, saving,
                   knownValidators, registrations>>

\* what one pass of the loop does with an entry
EntryVerdict(reg, timestampFails) ==
    IF ~reg.hasMessage THEN "skip"
    ELSE IF reg.pubkeyLen # PubkeyLength THEN "invalid pubkey length"
    ELSE IF reg.signatureLen # SignatureLength THEN "invalid signature length"
    ELSE IF TooFarInFuture(reg.timestamp, Now) THEN "timestamp too far in the future"
    ELSE IF ~IsKnownValidator(reg.pubkey) THEN "not a known validator"
    ELSE IF IsLatest(GetValidatorRegistrationTimestamp(reg.pubkey, timestampFails), reg.timestamp)
         THEN "skip"
    ELSE "send"

\* variant: a send that never waits
CanSendAlways(queue) == TRUE

\* api.regValEntriesC <- registration goes through once the channel has room
CanSend(queue) == Len(queue) < QueueCapacity

\* one pass of the loop; the send blocks while the channel is full
HandleRegisterValidatorEntry(r, reg, timestampFails) ==
    LET verdict == EntryVerdict(reg, timestampFails)
        next == [r EXCEPT !.remaining = r.remaining - 1,
                          !.errorResp = IF verdict \in {"skip", "send"} THEN r.errorResp ELSE verdict,
                          !.expected = IF FailedCheck(reg) = "" THEN r.expected ELSE FailedCheck(reg)]
    IN
    /\ BagIn(r, registering) /\ r.remaining > 0
    /\ IF verdict = "send"
       THEN /\ CanSend(regValEntriesC)
            /\ regValEntriesC' = Append(regValEntriesC, reg)
       ELSE UNCHANGED regValEntriesC
    /\ registering' = (registering (-) SetToBag({r})) (+) SetToBag({next})
    /\ last' = [op |-> "registerValidator", outcome |-> verdict, code |-> 0, reg |-> reg]
    /\ UNCHANGED <<storeVars, optVars, waiting, srvVars, submitting, dutyVars, dutyTasks,
                   regValWorkersStarted, numWorkers, saving, knownValidators, registrations>>

\* the loop is over: the response
HandleRegisterValidatorRespond(r) ==
    /\ BagIn(r, registering) /\ r.remaining = 0
    /\ registering' = registering (-) SetToBag({r})
    /\ last' = [op |-> "registerValidator", outcome |-> "responded",
                code |-> IF r.errorResp # "" THEN 400 ELSE 200, message |-> r.errorResp,
                expected |-> r.expected]
    /\ UNCHANGED <<storeVars, optVars, waiting, srvVars, submitting, dutyVars, dutyTasks,
                   regValEntriesC, regValWorkersStarted, numWorkers, saving,
                   knownValidators, registrations>>

\* numWorkers := api.opts.RegValWorkers, or runtime.NumCPU() when that is 0
WorkerCount == IF regValWorkersOpt = 0 THEN NumCPU ELSE regValWorkersOpt

\* variant: the flag is read and not set
SwapKeepsFlag(flag) == flag

\* atomic.Bool.Swap(true): the flag after the call
Swap(flag) == TRUE

\* what startValidatorRegistrationWorkers does: an error if the flag was set,
\* else the flag and the workers
StartWorkersEffect ==
    IF regValWorkersStarted
    THEN UNCHANGED <<regValWorkersStarted, numWorkers>>
    ELSE /\ regValWorkersStarted' = Swap(regValWorkersStarted)
         /\ numWorkers' = numWorkers + WorkerCount

StartValidatorRegistrationWorkers ==
    /\ StartWorkersEffect
    /\ last' = [op |-> "startValidatorRegistrationWorkers", err |-> regValWorkersStarted]
    /\ UNCHANGED <<storeVars, optVars, waiting, srvVars, submitting, dutyVars, dutyTasks,
                   regValEntriesC, registering, saving, knownValidators, registrations>>

\* a worker takes an entry off the channel, verifies it and, if it verifies,
\* spawns the goroutine that saves it
RegValWorker ==
    /\ numWorkers > 0
    /\ regValEntriesC # <<>>
    /\ LET reg == Head(regValEntriesC) IN
       /\ regValEntriesC' = Tail(regValEntriesC)
       /\ IF Verified(VerifySignature(reg))
          THEN /\ BagCardinality(saving) < MaxSaving
               /\ saving' = saving (+) SetToBag({reg})
               /\ last' = [op |-> "regValWorker", outcome |-> "verified", reg |-> reg]
          ELSE /\ UNCHANGED saving
               /\ last' = [op |-> "regValWorker", outcome |-> "failed", reg |-> reg]
    /\ UNCHANGED <<storeVars, optVars, waiting, srvVars, submitting, dutyVars, dutyTasks,
                   registering, regValWorkersStarted, numWorkers, knownValidators, registrations>>

\* datastore.SetValidatorRegistration keeps the registration it is given
StoredRegistration(reg) ==
    [present |-> TRUE, timestamp |-> reg.timestamp, signature |-> reg.signature]

\* the spawned goroutine: api.datastore.SetValidatorRegistration(registration)
SetValidatorRegistration(reg, fails) ==
    /\ BagIn(reg, saving)
    /\ saving' = saving (-) SetToBag({reg})
    /\ registrations' = IF fails THEN registrations
                        ELSE [registrations EXCEPT ![reg.pubkey] = StoredRegistration(reg)]
    /\ last' = [op |-> "setValidatorRegistration", reg |-> reg, err |-> fails,
                prevTimestamp |-> registrations[reg.pubkey].timestamp]
    /\ UNCHANGED <<storeVars, optVars, waiting, srvVars, submitting, dutyVars, dutyTasks,
                   regValEntriesC, registering, regValWorkersStarted, numWorkers, knownValidators>>

-----------------------------------------------------------------------------
(* StartServer *)

\* beaconClient.SyncStatus(): an error, or the sync state and the head slot
SyncStatuses == [err : BOOLEAN, isSyncing : BOOLEAN, headSlot : {0, SlotsPerEpoch}]

\* datastore.RefreshKnownValidators(): an error, or the known validators it loaded
KnownValidatorRefreshes == [err : BOOLEAN, validators : {{}, {"pkA"}}]

\* a StartServer call that got past its flag: where it stands, the head slot
\* it was told, and the steps it has done
StartServerCall(pc, headSlot, log) == [pc |-> pc, headSlot |-> headSlot, log |-> log]

MoveCall(c, d) == (starting (-) SetToBag({c})) (+) SetToBag({d})

\* variant: only the error of SyncStatus is looked at
SyncedOrSyncing(status) == ~status.err

\* err == nil and !syncStatus.IsSyncing
Synced(status) == ~status.err /\ ~status.isSyncing

\* if api.srvStarted.Swap(true) { return error }
StartServerFlag ==
    /\ srvStarted' = Swap(srvStarted)
    /\ IF srvStarted
       THEN /\ UNCHANGED starting
            /\ last' = [op |-> "startServer", step |-> "flag", err |-> TRUE, log |-> <<>>]
       ELSE /\ starting' = starting (+) SetToBag({StartServerCall("sync", 0, <<>>)})
            /\ last' = [op |-> "startServer", step |-> "flag", err |-> FALSE, log |-> <<>>]
    /\ UNCHANGED <<storeVars, optVars, waiting, headConsumers, serving, submitting,
                   dutyVars, dutyTasks, regVars>>

\* the sync-status check
StartServerSync(c, status) ==
    /\ BagIn(c, starting) /\ c.pc = "sync"
    /\ IF Synced(status)
       THEN /\ starting' = MoveCall(c, StartServerCall("workers", status.headSlot, <<"sync">>))
            /\ last' = [op |-> "startServer", step |-> "sync", err |-> FALSE,
                        status |-> status, log |-> <<"sync">>]
       ELSE /\ starting' = MoveCall(c, StartServerCall("failed", 0, c.log))
            /\ last' = [op |-> "startServer", step |-> "sync", err |-> TRUE,
                        status |-> status, log |-> c.log]
    /\ UNCHANGED <<storeVars, optVars, waiting, srvStarted, headConsumers, serving, submitting,
                   dutyVars, dutyTasks, regVars>>

\* api.startValidatorRegistrationWorkers(), its error ignored
StartServerWorkers(c) ==
    /\ BagIn(c, starting) /\ c.pc = "workers"
    /\ StartWorkersEffect
    /\ starting' = MoveCall(c, [c EXCEPT !.pc = "prime", !.log = Append(c.log, "workers")])
    /\ last' = [op |-> "startServer", step |-> "workers", err |-> FALSE,
                log |-> Append(c.log, "workers")]
    /\ UNCHANGED <<storeVars, optVars, waiting, srvStarted, headConsumers, serving, submitting,
                   dutyVars, dutyTasks, regValEntriesC, registering, saving,
                   knownValidators, registrations>>

\* RefreshKnownValidators: an error ends the start, an empty set is only logged;
\* then the refresh loop is spawned
StartServerPrime(c, refresh) ==
    /\ BagIn(c, starting) /\ c.pc = "prime"
    /\ IF refresh.err
       THEN /\ starting' = MoveCall(c, [c EXCEPT !.pc = "failed"])
            /\ UNCHANGED knownValidators
            /\ last' = [op |-> "startServer", step |-> "prime", err |-> TRUE,
                        cnt |-> 0, log |-> c.log]
       ELSE /\ starting' = MoveCall(c, [c EXCEPT !.pc = "slot", !.log = Append(c.log, "prime")])
            /\ knownValidators' = refresh.validators
            /\ last' = [op |-> "startServer", step |-> "prime", err |-> FALSE,
                        cnt |-> Cardinality(refresh.validators), log |-> Append(c.log, "prime")]
    /\ UNCHANGED <<storeVars, optVars, waiting, srvStarted, headConsumers, serving, submitting,
                   dutyVars, dutyTasks, regValEntriesC, registering, regValWorkersStarted,
                   numWorkers, saving, registrations>>

\* api.processNewSlot(syncStatus.HeadSlot), synchronously
StartServerSlot(c) ==
    /\ BagIn(c, starting) /\ c.pc = "slot"
    /\ ProcessNewSlotEffect(c.headSlot)
    /\ starting' = MoveCall(c, [c EXCEPT !.pc = "serve", !.log = Append(c.log, "slot")])
    /\ last' = [op |-> "startServer", step |-> "slot", err |-> FALSE,
                headSlot |-> c.headSlot, log |-> Append(c.log, "slot")]
    /\ UNCHANGED <<optVars, waiting, srvStarted, headConsumers, serving, submitting,
                   dutyVars, regVars>>

\* the goroutine that consumes head events, then api.srv.ListenAndServe()
StartServerServe(c) ==
    /\ BagIn(c, starting) /\ c.pc = "serve"
    /\ headConsumers' = headConsumers + 1
    /\ serving' = serving + 1
    /\ starting' = MoveCall(c, [c EXCEPT !.pc = "serving",
                                         !.log = c.log \o <<"consumer", "serve">>])
    /\ last' = [op |-> "startServer", step |-> "serve", err |-> FALSE,
                log |-> c.log \o <<"consumer", "serve">>]
    /\ UNCHANGED <<storeVars, optVars, waiting, srvStarted, submitting,
                   dutyVars, dutyTasks, regVars>>

\* the consumer goroutine: headSlot := <-c; api.processNewSlot(headSlot)
HeadEvent(headSlot) ==
    /\ headConsumers > 0
    /\ ProcessNewSlot(headSlot)

-----------------------------------------------------------------------------
(* The state after NewRelayAPI, and the specifications *)

EmptyMap == [k \in {} |-> 0]

\* what the datastore may hold when the relay starts: nothing, or registrations saved earlier
RegistrationOf(timestamp) == [present |-> TRUE, timestamp |-> timestamp, signature |-> "valid"]

InitRelay(flags, waits, workers, stores) ==
    /\ bids = EmptyMap
    /\ blocks = EmptyMap
    /\ debugAllowZeroValueBlocks \in flags
    /\ getHeaderWaitTime \in waits
    /\ regValWorkersOpt \in workers
    /\ waiting = EmptyBag
    /\ srvStarted = FALSE
    /\ starting = EmptyBag
    /\ headConsumers = 0
    /\ serving = 0
    /\ submitting = EmptyBag
    /\ proposerDutiesEpoch = 0
    /\ proposerDutiesResponse = <<>>
    /\ dutyTasks = EmptyBag
    /\ regValEntriesC = <<>>
    /\ registering = EmptyBag
    /\ regValWorkersStarted = FALSE
    /\ numWorkers = 0
    /\ saving = EmptyBag
    /\ knownValidators = {"pkA"}
    /\ registrations \in stores
    /\ refreshCount = [e \in 0..MaxEpoch |-> 0]

\* the relay before any request
InitFor(flags, waits, workers, stores) ==
    /\ InitRelay(flags, waits, workers, stores)
    /\ last = [op |-> "init"]

\* the relay with RegValWorkers workers
InitOpts(flags, waits, stores) == InitFor(flags, waits, {RegValWorkers}, stores)

\* the relay without a getHeader wait time
InitWith(flags, stores) == InitOpts(flags, {0}, stores)

EmptyDatastore == [p \in Pubkeys |-> NoRegistration]

AnyDatastore == [Pubkeys -> {NoRegistration, RegistrationOf(1)}]

Init == InitFor(BOOLEAN, {0, 1}, 0..RegValWorkers, AnyDatastore)

\* the uint64 timestamps an entry may carry: small ones, the ones around
\* startTimestamp + 10, the ones around 2^63 (here half the modulus) and the largest
Half == Uint64Modulus \div 2
StartTimestamps == 1..(Now + MaxTimestamp)
TimestampInputs ==
    (0..MaxTimestamp)
    \cup {n + FutureLimit + d : n \in StartTimestamps, d \in {0, 1}}
    \cup {Half + d : d \in (0 - 1)..(Now + MaxTimestamp + 1)}
    \cup {Uint64Modulus - 1}

\* a registerValidator request stands at the timestamp check of an entry
InitTimestamp ==
    /\ InitRelay({FALSE}, {0}, {RegValWorkers}, {EmptyDatastore})
    /\ last \in [op : {"timestampPosted"}, timestamp : TimestampInputs,
                 startTimestamp : StartTimestamps]

\* td := int64(registration.Message.Timestamp) - startTimestamp; if td > 10 { errorResp = ... }
CheckTimestamp ==
    /\ last.op = "timestampPosted"
    /\ last' = [op |-> "timestampChecked", timestamp |-> last.timestamp,
                startTimestamp |-> last.startTimestamp,
                errorResp |-> TimestampCheck(last.timestamp, last.startTimestamp)]
    /\ UNCHANGED <<storeVars, optVars, waiting, srvVars, submitting, dutyVars, dutyTasks, regVars>>

NextTimestamp == CheckTimestamp

\* head slots fed to the duty refresh: the first two slots of each epoch
DutyHeadSlots == {e * SlotsPerEpoch + d : e \in 0..MaxEpoch, d \in {0, 1}}

\* the bid store fed with the given submissions, and read at the given slots and block hashes
NextBids(requests, slots, hashes) ==
    \/ SubmitNewBlockMalformed
    \/ \E req \in requests : SubmitNewBlockCheck(req)
    \/ \E req \in BagToSet(submitting) : SubmitNewBlockStore(req)
    \/ \E req \in GetHeaderRequests(slots) : HandleGetHeader(req)
    \/ \E req \in GetPayloadRequests(slots, hashes) : HandleGetPayload(req)
    \/ HandleGetPayloadMalformed
    \/ \E h \in HeadSlots : ProcessNewSlot(h)
    \/ \E t \in BagToSet(dutyTasks) : UpdateDutiesSkip(t)

\* two slots, one block hash
StoreRequests == SubmitRequests(SubmitSlots, {Bytes(32, 12)}, {PayloadOf(Bytes(32, 12))})
NextStore == NextBids(StoreRequests, SubmitSlots, {Bytes(32, 12)})

\* one slot, every block hash with every payload
LaneRequests == SubmitRequests({5}, BlockHashes, ExecutionPayloads)
NextLane == NextBids(LaneRequests, {5}, BlockHashes)

\* one slot, every block hash with its own payload or none
PairRequests == {r \in LaneRequests : r.executionPayload \in {NilPayload, PayloadOf(r.blockHash)}}
NextPair == NextBids(PairRequests, {5}, BlockHashes)

\* one slot, one block hash, and getHeader requests that sleep
WaitRequests == SubmitRequests({5}, {Bytes(32, 12)}, {PayloadOf(Bytes(32, 12))})
NextWait ==
    \/ NextBids(WaitRequests, {5}, {Bytes(32, 12)})
    \/ \E w \in BagToSet(waiting) : HandleGetHeaderWake(w)

\* the start of the relay: StartServer and startValidatorRegistrationWorkers
\* called any number of times, and what the started goroutines do
NextStart ==
    \/ StartServerFlag
    \/ \E c \in BagToSet(starting), status \in SyncStatuses : StartServerSync(c, status)
    \/ \E c \in BagToSet(starting) : StartServerWorkers(c)
    \/ \E c \in BagToSet(starting), refresh \in KnownValidatorRefreshes : StartServerPrime(c, refresh)
    \/ \E c \in BagToSet(starting) : StartServerSlot(c)
    \/ \E c \in BagToSet(starting) : StartServerServe(c)
    \/ \E h \in DutyHeadSlots : HeadEvent(h)
    \/ StartValidatorRegistrationWorkers
    \/ \E t \in BagToSet(dutyTasks) : UpdateDutiesSkip(t)
    \/ \E t \in BagToSet(dutyTasks), fails \in BOOLEAN : UpdateDutiesFetch(t, fails)
    \/ \E t \in BagToSet(dutyTasks), i \in 1..2, fails \in BOOLEAN : UpdateDutiesGather(t, i, fails)
    \/ \E t \in BagToSet(dutyTasks) : UpdateDutiesPublish(t)

NextDuty ==
    \/ \E h \in DutyHeadSlots : ProcessNewSlot(h)
    \/ \E t \in BagToSet(dutyTasks) : UpdateDutiesSkip(t)
    \/ \E t \in BagToSet(dutyTasks), fails \in BOOLEAN : UpdateDutiesFetch(t, fails)
    \/ \E t \in BagToSet(dutyTasks), i \in 1..2, fails \in BOOLEAN : UpdateDutiesGather(t, i, fails)
    \/ \E t \in BagToSet(dutyTasks) : UpdateDutiesPublish(t)
    \/ HandleBuilderGetValidators

\* the registration pipeline; faults: whether a datastore call may fail
NextRegWith(faults) ==
    \/ \E body \in UndecodableBodies : HandleRegisterValidatorMalformed(body)
    \/ \E n \in 0..MaxBatch : HandleRegisterValidatorStart(n)
    \/ \E r \in BagToSet(registering), reg \in SignedValidatorRegistrations, fails \in faults :
          HandleRegisterValidatorEntry(r, reg, fails)
    \/ \E r \in BagToSet(registering) : HandleRegisterValidatorRespond(r)
    \/ StartValidatorRegistrationWorkers
    \/ RegValWorker
    \/ \E reg \in BagToSet(saving), fails \in faults : SetValidatorRegistration(reg, fails)

NextReg == NextRegWith(BOOLEAN)

Next ==
    \/ NextBids(SubmitRequests(SubmitSlots, BlockHashes, ExecutionPayloads), SubmitSlots, BlockHashes)
    \/ \E w \in BagToSet(waiting) : HandleGetHeaderWake(w)
    \/ NextStart
    \/ NextDuty
    \/ NextReg

\* the whole service
Spec == Init /\ [][Next]_vars

\* the bid store with its handlers and the head tracker, within one epoch:
\* submissions for two slots
SpecStore == InitWith(BOOLEAN, {EmptyDatastore}) /\ [][NextStore]_vars

\* the same, with the submissions of one lane competing
SpecLane == InitWith({FALSE}, {EmptyDatastore}) /\ [][NextLane]_vars

\* the same, with the builders' submissions carrying the payload of their block hash
SpecPair == InitWith({FALSE}, {EmptyDatastore}) /\ [][NextPair]_vars

\* the bid store of a relay with a getHeader wait time
SpecWait == InitOpts({FALSE}, {1}, {EmptyDatastore}) /\ [][NextWait]_vars

\* the start of the relay, for every setting of RegValWorkers
SpecStart ==
    InitFor({FALSE}, {0}, 0..RegValWorkers, {EmptyDatastore}) /\ [][NextStart]_vars

\* the head tracker and the duty refresh
SpecDuty == InitWith({FALSE}, AnyDatastore) /\ [][NextDuty]_vars

\* the registration pipeline
SpecReg == InitWith({FALSE}, {EmptyDatastore, [EmptyDatastore EXCEPT !["pkA"] = RegistrationOf(1)]})
           /\ [][NextReg]_vars

\* the registration pipeline under fair scheduling of the workers and of the
\* goroutines that save
SpecRegFair ==
    /\ InitWith({FALSE}, {EmptyDatastore})
    /\ [][NextRegWith({FALSE})]_vars
    /\ WF_vars(RegValWorker)
    /\ WF_vars(\E reg \in BagToSet(saving) : SetValidatorRegistration(reg, FALSE))

\* the timestamp check of handleRegisterValidator over the uint64 range
SpecTimestamp == InitTimestamp /\ [][NextTimestamp]_vars

\* the registration pipeline with a datastore that never fails
SpecRegNoFaults ==
    InitWith({FALSE}, {EmptyDatastore, [EmptyDatastore EXCEPT !["pkA"] = RegistrationOf(1)]})
    /\ [][NextRegWith({FALSE})]_vars

-----------------------------------------------------------------------------
(* Properties *)

\* the step just taken is a submitNewBlock step on a decoded request
SubmitStep == last.op = "submitNewBlock" /\ last.outcome # "malformed"

\* the step just taken stored a submission
StoredStep == last.op = "submitNewBlock" /\ last.outcome = "stored"

\* the step just taken is the prior-bid check of a submission, not its insert
CheckStep == last.op = "submitNewBlock" /\ last.outcome \in {"zero", "notHigher", "checked"}

\* the step just taken is a processNewSlot
SlotStep == last.op = "processNewSlot"

\* C1: for every interleaving of submitNewBlock requests sharing a BidKey, the
\* value of the bid stored at that key never decreases.
C1_ValueNeverDecreases ==
    [][\A k \in DOMAIN bids \cap DOMAIN bids' : bids'[k].value >= bids[k].value]_vars

\* the step just taken replaced the bid of a key by a bid of higher value
\* submitted with another block hash
ReplacedStep ==
    /\ StoredStep
    /\ Len(last.replaced) = 1
    /\ last.replaced[1].value < last.req.value
    /\ last.replaced[1].submittedBlockHash # HexString(last.req.blockHash)

\* C2, as claimed: after a bid is replaced by a higher one with another block
\* hash, getPayload answers 200 with the payload for the new block hash and 500
\* for the replaced block hash.
C2_ReplacedPayloadUnknown ==
    ReplacedStep =>
        /\ GetPayloadResponse(SubmitBlockKey(last.req)) = [code |-> 200, payload |-> last.req.executionPayload]
        /\ GetPayloadResponse(BlockKeyOf(last.req.slot, last.replaced[1].submittedBlockHash)).code = 500

\* C2, amended: after such a replacement getPayload answers 200 with the new
\* payload for the new block hash and still answers 200 for the replaced block
\* hash; an entry leaves the payload map only by an eviction that finds its
\* slot expired.
C2_ReplacedPayloadKept ==
    [][/\ ReplacedStep' =>
            /\ PayloadAnswer(blocks', SubmitBlockKey(last'.req))
                   = [code |-> 200, payload |-> last'.req.executionPayload]
            /\ PayloadAnswer(blocks', BlockKeyOf(last'.req.slot,
                                                 last'.replaced[1].submittedBlockHash)).code = 200
       /\ \A k \in DOMAIN blocks : k \notin DOMAIN blocks' =>
            SlotStep' /\ Expired(k.slot, last'.headSlot)]_vars

\* C2 witness: a bid has just been replaced by a higher one with another block hash
C2_Witness == ReplacedStep /\ last.req.executionPayload.blockHash = last.req.blockHash

\* C3: SetValidatorRegistration is never invoked with a registration whose
\* timestamp is <= the timestamp the datastore holds for the pubkey at the call.
C3_SavedOnlyWhenNewer ==
    last.op = "setValidatorRegistration" => last.reg.timestamp > last.prevTimestamp

\* C4: at most one refresh is published per epoch, in every interleaving of the
\* refresh goroutines.
C4_OneRefreshPerEpoch == \A e \in DOMAIN refreshCount : refreshCount[e] <= 1

\* getHeader and getPayload serve the submission req: a header with the
\* message's block hash, and the submission's payload
Serves(req) ==
    /\ GetHeaderResponse(SubmitBidKey(req)).code = 200
    /\ GetHeaderResponse(SubmitBidKey(req)).bid.headerBlockHash = HexString(req.blockHash)
    /\ GetPayloadResponse(SubmitBlockKey(req)) = [code |-> 200, payload |-> req.executionPayload]

C6_Eviction ==
    [][SlotStep' =>
        IF last'.headSlot % 10 = 0
        THEN /\ \A k \in DOMAIN bids' : ~(k.slot < last'.headSlot - 10)
             /\ \A k \in DOMAIN blocks' : ~(k.slot < last'.headSlot - 10)
        ELSE bids' = bids /\ blocks' = blocks]_vars

\* C6 witness: an eviction has removed entries and kept others
C6_Witness ==
    /\ SlotStep /\ last.headSlot % 10 = 0 /\ last.headSlot >= 20
    /\ last.numBidsRemoved > 0 /\ last.numBidsRemaining > 0

\* C7: with the debug flag unset no bid of value zero is ever stored, and a
\* zero-value submitNewBlock is answered 200 and changes neither map.
C7_ZeroValuePolicy ==
    [][~debugAllowZeroValueBlocks' =>
        /\ \A k \in DOMAIN bids' : bids'[k].value # 0
        /\ (SubmitStep' /\ last'.req.value = 0) =>
              /\ last'.outcome = "zero" /\ last'.code = 200
              /\ bids' = bids /\ blocks' = blocks]_vars

\* C7 witness: a zero-value submission has been answered with the flag unset,
\* while a bid is stored
C7_Witness ==
    /\ ~debugAllowZeroValueBlocks
    /\ SubmitStep /\ last.outcome = "zero"
    /\ SubmitBidKey(last.req) \in DOMAIN bids

\* C8: only registrations whose signature verified are handed to
\* SetValidatorRegistration or held by the datastore; a worker that meets a
\* failing entry drops it and goes on running.
C8_SignatureGate ==
    /\ \A reg \in BagToSet(saving) : reg.signature = "valid"
    /\ last.op = "setValidatorRegistration" => last.reg.signature = "valid"
    /\ \A p \in Pubkeys : registrations[p].present => registrations[p].signature = "valid"
    /\ (last.op = "regValWorker" /\ last.reg.signature # "valid") =>
            last.outcome = "failed" /\ numWorkers > 0

\* C8 witness: a worker has just dropped a failing entry while a verified one
\* is about to be saved and the next entry waits in the channel
C8_Witness ==
    /\ last.op = "regValWorker" /\ last.outcome = "failed"
    /\ saving # EmptyBag
    /\ regValEntriesC # <<>>

\* C9: every stored bid has a payload stored under its slot and the block hash
\* of the submission it was made from.
C9_BidHasPayload ==
    \A k \in DOMAIN bids : BlockKeyOf(k.slot, bids[k].submittedBlockHash) \in DOMAIN blocks

\* C9 witness: after an eviction, a bid stored with one block hash while the
\* payload map also holds the other, with a further submission in flight
C9_Witness ==
    /\ SlotStep /\ last.headSlot % 10 = 0
    /\ DOMAIN bids # {} /\ Cardinality(DOMAIN blocks) = 2
    /\ submitting # EmptyBag

\* C10: a submitNewBlock whose value is <= the value stored for its BidKey when
\* it makes its prior-bid check is answered 200 and leaves both maps as they
\* are, equal values included.
C10_NotHigherIsNoOp ==
    [][(/\ CheckStep'
        /\ SubmitBidKey(last'.req) \in DOMAIN bids
        /\ last'.req.value <= bids[SubmitBidKey(last'.req)].value) =>
            /\ last'.outcome \in {"zero", "notHigher"} /\ last'.code = 200
            /\ bids' = bids /\ blocks' = blocks]_vars

\* C10 witness: a submission equal in value to the stored bid, with another
\* block hash, has been answered
C10_Witness ==
    /\ SubmitStep /\ last.outcome = "notHigher"
    /\ SubmitBidKey(last.req) \in DOMAIN bids
    /\ last.req.value = bids[SubmitBidKey(last.req)].value
    /\ HexString(last.req.blockHash) # bids[SubmitBidKey(last.req)].submittedBlockHash

\* the step just taken is a duty refresh that gave up on a failed fetch or lookup
AbortStep ==
    last.op = "updateProposerDuties" /\ last.outcome \in {"fetchError", "lookupError"}

\* C11: a duty refresh that aborts on a failed fetch or lookup leaves the
\* published list and the epoch mark as they are, builder/validators answers
\* the published list, and a task spawned for the same epoch afterwards passes
\* the guard exactly when it would have passed before the abort.
C11_AbortKeepsDuties ==
    [][/\ AbortStep' =>
            /\ proposerDutiesResponse' = proposerDutiesResponse
            /\ proposerDutiesEpoch' = proposerDutiesEpoch
            /\ refreshCount' = refreshCount
            /\ (last'.epoch <= proposerDutiesEpoch') = (last'.epoch <= proposerDutiesEpoch)
       /\ last'.op = "builderGetValidators" =>
            last'.code = 200 /\ last'.duties = proposerDutiesResponse]_vars

\* C11 witness: a refresh of a later epoch has aborted while a list published
\* earlier is in force, and the epoch is still to be refreshed
C11_Witness ==
    /\ AbortStep
    /\ proposerDutiesResponse # <<>>
    /\ proposerDutiesEpoch < last.epoch

\* the duties of an epoch whose pubkey has a registration, in the beacon node's order
RegisteredDuties(epoch) ==
    LET kept == SelectSeq(DutiesOfEpoch(epoch), LAMBDA d : registrations[d.pubkey].present)
    IN [i \in 1..Len(kept) |-> [slot |-> kept[i].slot, entry |-> registrations[kept[i].pubkey]]]

\* C12: the list a refresh publishes is the fetched epoch's duties with a
\* stored registration, in the beacon node's order, whatever order the lookups
\* complete in.
C12_PublishedInDutyOrder ==
    (last.op = "updateProposerDuties" /\ last.outcome = "published") =>
        proposerDutiesResponse = RegisteredDuties(last.epoch)

\* an entry passes every check of the batch and is newer than what the datastore holds
PassesAndNewer(reg) ==
    /\ reg.hasMessage
    /\ FailedCheck(reg) = ""
    /\ reg.timestamp > registrations[reg.pubkey].timestamp

\* the error of the last entry of a batch that fails a check, "" for none
LastFailure(entries) ==
    LET failing == SelectSeq(entries, LAMBDA e : FailedCheck(e) # "")
    IN IF failing = <<>> THEN "" ELSE FailedCheck(failing[Len(failing)])

\* C13: a registerValidator batch is answered 400 with the error of its last
\* failing entry exactly when an entry fails a check (pubkey length, signature
\* length, future timestamp, unknown validator), and OK otherwise; whatever the
\* other entries do, exactly the entries that pass the checks and are newer
\* than the stored timestamp are put on the queue, in batch order.
C13_BatchResponse ==
    [][last'.op = "registerValidator" =>
        CASE last'.outcome = "malformed" ->
               last'.body.json =>
                  /\ last'.code = (IF LastFailure(last'.body.entries) = "" THEN 200 ELSE 400)
                  /\ last'.message = LastFailure(last'.body.entries)
                  /\ regValEntriesC' = regValEntriesC \o SelectSeq(last'.body.entries, PassesAndNewer)
          [] last'.outcome = "responded" ->
               /\ last'.code = (IF last'.expected = "" THEN 200 ELSE 400)
               /\ last'.message = last'.expected
          [] last'.outcome = "started" -> TRUE
          [] OTHER ->
               regValEntriesC' = IF PassesAndNewer(last'.reg)
                                 THEN Append(regValEntriesC, last'.reg)
                                 ELSE regValEntriesC]_vars

\* a getHeader request that passed the checks of its path variables has been answered
HeaderAnswered == last.op = "getHeader" /\ last.phase = "answered"

\* a getPayload request that passed the signature check has been answered
PayloadAnswered ==
    last.op = "getPayload" /\ "req" \in DOMAIN last /\ last.resp.code # 400

\* C14: every key of the two maps is in lowercase canonical form, and a
\* getHeader or getPayload whose hex arguments spell the bytes of a stored
\* entry, in any letter case, finds that entry.
C14_CaseInsensitiveKeys ==
    /\ \A k \in DOMAIN bids :
          /\ k.parentHash = HexString(FromHex(k.parentHash))
          /\ k.proposerPubkey = HexString(FromHex(k.proposerPubkey))
    /\ \A k \in DOMAIN blocks : k.blockHash = HexString(FromHex(k.blockHash))
    /\ HeaderAnswered =>
          \A k \in DOMAIN bids :
             (/\ k.slot = last.req.slot
              /\ FromHex(k.parentHash) = FromHex(last.req.parentHash)
              /\ FromHex(k.proposerPubkey) = FromHex(last.req.pubkey))
             => last.resp = [code |-> 200, bid |-> bids[k]]
    /\ PayloadAnswered =>
          \A k \in DOMAIN blocks :
             (k.slot = last.req.slot /\ FromHex(k.blockHash) = FromHex(last.req.blockHashHex))
             => last.resp = [code |-> 200, payload |-> blocks[k]]

\* C14 witness: a getHeader spelled in another case than the stored key has
\* found the bid of a submission
C14_Witness ==
    /\ HeaderAnswered /\ last.resp.code = 200
    /\ last.req.parentHash # HexString(FromHex(last.req.parentHash))
    /\ last.req.pubkey # HexString(FromHex(last.req.pubkey))

\* C15: a well-formed getHeader answers from the bid map as it is after the
\* wait, 204 exactly when its BidKey holds no bid and 200 with the stored bid
\* otherwise, and answers nothing before the wait is over; a getPayload with a
\* 96-byte signature answers 500 exactly when its BlockKey holds no payload and
\* 200 with the payload otherwise; neither changes the two maps.
C15_ReadAfterWait ==
    [][/\ last'.op \in {"getHeader", "getPayload"} => bids' = bids /\ blocks' = blocks
       /\ (last'.op = "getHeader" /\ last'.phase = "sleeping") =>
             getHeaderWaitTime > 0 /\ last'.resp.code = 0
       /\ HeaderAnswered' =>
             LET key == [slot |-> last'.req.slot,
                         parentHash |-> HexString(FromHex(last'.req.parentHash)),
                         proposerPubkey |-> HexString(FromHex(last'.req.pubkey))]
             IN IF key \in DOMAIN bids
                THEN last'.resp = [code |-> 200, bid |-> bids[key]]
                ELSE last'.resp.code = 204
       /\ PayloadAnswered' =>
             LET key == [slot |-> last'.req.slot,
                         blockHash |-> HexString(FromHex(last'.req.blockHashHex))]
             IN IF key \in DOMAIN blocks
                THEN last'.resp = [code |-> 200, payload |-> blocks[key]]
                ELSE last'.resp.code = 500]_vars

\* C15 witness: a getHeader has served a bid that was stored while it slept
C15_Witness ==
    /\ HeaderAnswered /\ getHeaderWaitTime > 0
    /\ last.early.code = 204
    /\ last.resp.code = 200

\* the registration is waiting in the channel
Queued(reg) == \E i \in 1..Len(regValEntriesC) : regValEntriesC[i] = reg

\* the registrations the front stage can send: of the known validator and not
\* in the future
SendableRegistrations ==
    {reg \in SignedValidatorRegistrations :
        reg.hasMessage /\ reg.pubkey = "pkA" /\ reg.timestamp - Now <= FutureLimit}

\* a worker has just taken the registration off the channel and verified it
JustVerified(reg) == last.op = "regValWorker" /\ last.reg = reg

\* C16: the channel never holds more than its capacity; it changes only by a
\* send that appends the entry or by a worker that takes its head, so no entry
\* is dropped or taken twice; and once workers run, every entry in the channel
\* is eventually taken and verified by a worker.
C16_QueueBoundedAndDrained ==
    /\ [](Len(regValEntriesC) <= QueueCapacity)
    /\ [](\A i \in 1..Len(regValEntriesC) : regValEntriesC[i] \in SendableRegistrations)
    /\ [][\/ regValEntriesC' = regValEntriesC
          \/ /\ last'.op = "registerValidator" /\ last'.outcome = "send"
             /\ regValEntriesC' = Append(regValEntriesC, last'.reg)
          \/ /\ last'.op = "regValWorker"
             /\ regValEntriesC # <<>>
             /\ last'.reg = Head(regValEntriesC)
             /\ regValEntriesC' = Tail(regValEntriesC)]_vars
    /\ \A reg \in SendableRegistrations :
          (numWorkers > 0 /\ Queued(reg)) ~> JustVerified(reg)

\* C16 witness: the channel is full and a request stands at its next entry,
\* with the workers running
C16_Witness ==
    /\ Len(regValEntriesC) = QueueCapacity
    /\ \E r \in BagToSet(registering) : r.remaining > 0
    /\ numWorkers > 0

\* the steps of StartServer, in the order the relay is to take them
StartOrder == <<"sync", "workers", "prime", "slot", "consumer", "serve">>

IsPrefix(a, b) == Len(a) <= Len(b) /\ a = SubSeq(b, 1, Len(a))

StartStep == last.op = "startServer"

\* C17: StartServer takes its steps in the order sync check, workers, known
\* validators, processNewSlot(head slot), head consumer, HTTP serving; when the
\* sync query fails or reports syncing the call returns an error and no later
\* step is ever taken; an empty known-validator set does not end the start.
C17_StartOrder ==
    [][/\ \A c \in BagToSet(starting') :
             /\ IsPrefix(c.log, StartOrder)
             /\ c.pc = "serving" => c.log = StartOrder
       /\ \A c \in BagToSet(starting) : c.pc = "failed" => BagIn(c, starting')
       /\ (StartStep' /\ last'.step = "sync" /\ (last'.status.err \/ last'.status.isSyncing)) =>
             /\ last'.err
             /\ \E c \in BagToSet(starting') : c.pc = "failed" /\ c.log = <<>>
             /\ UNCHANGED <<storeVars, dutyTasks, dutyVars, headConsumers, serving, regVars>>
       /\ (\E c \in BagToSet(starting') : c.pc = "failed" /\ c.log = <<>>) =>
             /\ headConsumers' = 0 /\ serving' = 0
             /\ dutyTasks' = EmptyBag /\ refreshCount' = refreshCount
             /\ numWorkers' # numWorkers => last'.op = "startValidatorRegistrationWorkers"
       /\ (StartStep' /\ numWorkers' # numWorkers) => last'.log = SubSeq(StartOrder, 1, 2)
       /\ knownValidators' # knownValidators =>
             StartStep' /\ last'.log = SubSeq(StartOrder, 1, 3)
       /\ (StartStep' /\ dutyTasks' # dutyTasks) =>
             /\ last'.log = SubSeq(StartOrder, 1, 4)
             /\ BagIn(NewDutyTask(EpochOf(last'.headSlot)), dutyTasks')
       /\ (headConsumers' # headConsumers \/ serving' # serving) =>
             StartStep' /\ last'.log = StartOrder
       /\ (StartStep' /\ last'.step = "prime" /\ ~last'.err) =>
             \E c \in BagToSet(starting') : c.pc = "slot"]_vars

\* C17 witness: the relay serves after a start that found no known validator
C17_Witness ==
    /\ StartStep /\ last.step = "serve"
    /\ knownValidators = {}
    /\ serving = 1 /\ headConsumers = 1 /\ numWorkers > 0
    /\ dutyTasks # EmptyBag

\* C18: at most one StartServer call and at most one worker start get past
\* their flag; a call that finds its flag set returns an error and starts
\* nothing; the workers ever started number RegValWorkers, or the CPU count when
\* RegValWorkers is 0.
C18_StartedOnce ==
    [][/\ BagCardinality(starting') <= 1
       /\ headConsumers' <= 1 /\ serving' <= 1
       /\ numWorkers' = (IF regValWorkersStarted'
                         THEN (IF regValWorkersOpt = 0 THEN NumCPU ELSE regValWorkersOpt)
                         ELSE 0)
       /\ (StartStep' /\ last'.step = "flag" /\ srvStarted) =>
             /\ last'.err
             /\ UNCHANGED <<starting, headConsumers, serving, numWorkers, dutyTasks, storeVars>>
       /\ (StartStep' /\ last'.step = "flag" /\ ~srvStarted) => ~last'.err /\ srvStarted'
       /\ (last'.op = "startValidatorRegistrationWorkers" /\ regValWorkersStarted) =>
             last'.err /\ numWorkers' = numWorkers
       /\ (last'.op = "startValidatorRegistrationWorkers" /\ ~regValWorkersStarted) =>
             ~last'.err /\ regValWorkersStarted']_vars

\* C18 witness: a second StartServer has been refused while the relay serves
\* with as many workers as CPUs
C18_Witness ==
    /\ StartStep /\ last.step = "flag" /\ last.err
    /\ serving = 1
    /\ regValWorkersOpt = 0 /\ numWorkers = NumCPU

\* C19: an entry is rejected with "timestamp too far in the future" exactly
\* when its timestamp minus the request time exceeds 10 as integers, for every
\* uint64 timestamp, those of 2^63 and above included.
C19_TimestampBound ==
    last.op = "timestampChecked" =>
        (last.errorResp = "timestamp too far in the future"
            <=> last.timestamp - last.startTimestamp > FutureLimit)

\* the same for the timestamps below 2^63 only
TimestampBoundBelowHalf ==
    (last.op = "timestampChecked" /\ last.timestamp < Half) =>
        (last.errorResp = "timestamp too far in the future"
            <=> last.timestamp - last.startTimestamp > FutureLimit)

\* C20: an eviction at head slot h removes no entry with slot >= h - 10 as
\* integers; at h = 0, where h - 10 wraps around, it removes nothing.
C20_EvictsOnlyOlder ==
    [][(SlotStep' /\ last'.headSlot % 10 = 0) =>
          /\ \A k \in DOMAIN bids : k.slot >= last'.headSlot - 10 => k \in DOMAIN bids'
          /\ \A k \in DOMAIN blocks : k.slot >= last'.headSlot - 10 => k \in DOMAIN blocks']_vars

\* the same for the head slots from 10 on
EvictsOnlyOlderFromTen ==
    [][(SlotStep' /\ last'.headSlot % 10 = 0 /\ last'.headSlot >= 10) =>
          /\ \A k \in DOMAIN bids : k.slot >= last'.headSlot - 10 => k \in DOMAIN bids'
          /\ \A k \in DOMAIN blocks : k.slot >= last'.headSlot - 10 => k \in DOMAIN blocks']_vars

\* C21: the epoch mark of the duty list never decreases: a refresh of an
\* earlier epoch that completes after the refresh of a later one overwrites
\* neither the list nor the mark of the later epoch.
C21_MarkNeverDecreases ==
    [][/\ proposerDutiesEpoch' >= proposerDutiesEpoch
       /\ (last'.op = "updateProposerDuties" /\ last'.outcome = "published"
            /\ proposerDutiesResponse' # proposerDutiesResponse)
              => last'.epoch >= proposerDutiesEpoch]_vars

\* C22: once an eviction at head slot h has run, no entry with slot < h - 10
\* is stored: the step that follows the eviction leaves no such bid and no
\* such payload in the maps.
C22_NoExpiredAfterEviction ==
    [][(SlotStep /\ last.headSlot % 10 = 0) =>
          /\ \A k \in DOMAIN bids' : ~(k.slot < last.headSlot - 10)
          /\ \A k \in DOMAIN blocks' : ~(k.slot < last.headSlot - 10)]_vars
====
